---- MODULE Spec2Model ----
(***************************************************************************)
(* Concurrent CSV ingestion pipeline of internal/csv (CSVParser.ParseFile) *)
(* and the hierarchy tree of internal/domain (Node.AddNode).               *)
(*                                                                         *)
(* Column names are sequences of one-character strings, so that the        *)
(* prefix test, the numeric-suffix parse and the "level_%d" formatting of  *)
(* the code are computed, not assumed.  Field values of data records are   *)
(* plain strings.  The tree is a function from root-to-node key paths to   *)
(* the node's fields.                                                      *)
(***************************************************************************)
EXTENDS Integers, Sequences, FiniteSets, TLC

\* ------------------------------------------------------------------ bounds
\* Largest number of data records in an input.
MaxRows == 2
\* Largest configured concurrency explored.
MaxWorkers == 2
\* Capacity of rowChan in the model (the code uses 100).
QueueCap == 1
\* Largest number of columns in a header resolved on its own.
MaxCols == 4

\* --------------------------------------------------------------- constants
ITEM_ID == <<"i", "t", "e", "m", "_", "i", "d">>
LV_PREFIX == <<"l", "e", "v", "e", "l", "_">>

\* Error values: the sentinel an error wraps (errors.Is) and the column it names.
Err(kind, what) == [kind |-> kind, what |-> what]
NoErr == Err("nil", <<>>)
ErrUnknownColumn == "ErrUnknownColumn"
ErrMissingRequiredColumn == "ErrMissingRequiredColumn"
ErrMissingRequiredValue == "ErrMissingRequiredValue"
ErrMissingParentElement == "ErrMissingParentElement"
ErrReoccurringColumn == "ErrReoccurringColumn"
\* Errors that wrap none of the sentinels of internal/errors.
ErrEOF == "io.EOF"
ErrFieldCount == "csv.ErrFieldCount"
ErrParse == "csv.ParseError"
ErrMissingIndex == "missing index for column"
Canceled == "context.Canceled"

KnownUserErrors ==
    {ErrUnknownColumn, ErrMissingRequiredColumn, ErrMissingParentElement,
     ErrMissingRequiredValue, ErrReoccurringColumn}
IsKnownUserError(err) == err.kind \in KnownUserErrors

\* ---------------------------------------------------------- string helpers
HasPrefix(s, p) == Len(s) >= Len(p) /\ SubSeq(s, 1, Len(p)) = p
TrimPrefix(s, p) == IF HasPrefix(s, p) THEN SubSeq(s, Len(p) + 1, Len(s)) ELSE s

Digits == <<"0", "1", "2", "3", "4", "5", "6", "7", "8", "9">>
IsDigit(c) == \E d \in 1..10 : Digits[d] = c
DigitVal(c) == (CHOOSE d \in 1..10 : Digits[d] = c) - 1

RECURSIVE DigitsVal(_, _)
DigitsVal(s, acc) ==
    IF s = <<>> THEN acc ELSE DigitsVal(Tail(s), acc * 10 + DigitVal(Head(s)))

\* strconv.Atoi: an optional sign followed by one or more decimal digits.
Atoi(s) ==
    LET signed == s # <<>> /\ Head(s) \in {"+", "-"}
        body == IF signed THEN Tail(s) ELSE s
    IN  IF body = <<>> \/ \E i \in 1..Len(body) : ~IsDigit(body[i])
        THEN [ok |-> FALSE, val |-> 0]
        ELSE [ok |-> TRUE,
              val |-> IF signed /\ Head(s) = "-"
                      THEN 0 - DigitsVal(body, 0) ELSE DigitsVal(body, 0)]

\* fmt.Sprintf("%d", n) for n >= 0.
RECURSIVE Itoa(_)
Itoa(n) == IF n < 10 THEN <<Digits[n + 1]>> ELSE Itoa(n \div 10) \o <<Digits[(n % 10) + 1]>>

\* fmt.Sprintf("%s%d", LV_PREFIX, i)
LevelName(i) == LV_PREFIX \o Itoa(i)

\* A Go map as a function; the zero map has the empty domain.
EmptyMap == <<>>

\* Faulty variant of MapPut: the position is stored one-based.
MapPutOneBased(m, k, v) == [x \in DOMAIN m \cup {k} |-> IF x = k THEN v + 1 ELSE m[x]]

MapPut(m, k, v) == [x \in DOMAIN m \cup {k} |-> IF x = k THEN v ELSE m[x]]

\* ------------------------------------------------------------- csv.Reader
\* A raw record of the input: its fields, or a record with broken framing.
\* encoding/csv fixes FieldsPerRecord on the first record it reads and then
\* reports every record of another length as ErrFieldCount.
csvRead(f, pos, fpr) ==
    IF pos >= Len(f)
    THEN [err |-> Err(ErrEOF, <<>>), row |-> <<>>, fpr |-> fpr]
    ELSE LET rec == f[pos + 1] IN
         IF rec.bad
         THEN [err |-> Err(ErrParse, <<>>), row |-> <<>>, fpr |-> fpr]
         ELSE IF fpr > 0 /\ Len(rec.fields) # fpr
         THEN [err |-> Err(ErrFieldCount, <<>>), row |-> rec.fields, fpr |-> fpr]
         ELSE [err |-> NoErr, row |-> rec.fields,
               fpr |-> IF fpr = 0 THEN Len(rec.fields) ELSE fpr]

\* ------------------------------------------------------ extractColIndexes
\* Faulty variant of ColLoop: a level column of a depth already seen
\* overwrites the earlier one.
RECURSIVE ColLoopOverwritesLevel(_, _, _, _)
ColLoopOverwritesLevel(columns, i, colIdx, seenLevels) ==
    IF i > Len(columns)
    THEN [err |-> NoErr, colIndexes |-> colIdx, seenLevels |-> seenLevels]
    ELSE LET col == columns[i] IN
         IF col = ITEM_ID
         THEN IF ITEM_ID \in DOMAIN colIdx
              THEN [err |-> Err(ErrReoccurringColumn, ITEM_ID),
                    colIndexes |-> EmptyMap, seenLevels |-> seenLevels]
              ELSE ColLoopOverwritesLevel(columns, i + 1, MapPut(colIdx, ITEM_ID, i - 1),
                                          seenLevels)
         ELSE IF HasPrefix(col, LV_PREFIX)
         THEN LET levelNum == Atoi(TrimPrefix(col, LV_PREFIX)) IN
              IF ~levelNum.ok
              THEN [err |-> Err(ErrUnknownColumn, col),
                    colIndexes |-> EmptyMap, seenLevels |-> seenLevels]
              ELSE ColLoopOverwritesLevel(columns, i + 1, MapPut(colIdx, col, i - 1),
                                          seenLevels \cup {levelNum.val})
         ELSE [err |-> Err(ErrUnknownColumn, col),
               colIndexes |-> EmptyMap, seenLevels |-> seenLevels]

\* The header loop: position i (1-based here, index i - 1 in the code).
RECURSIVE ColLoop(_, _, _, _)
ColLoop(columns, i, colIdx, seenLevels) ==
    IF i > Len(columns)
    THEN [err |-> NoErr, colIndexes |-> colIdx, seenLevels |-> seenLevels]
    ELSE LET col == columns[i] IN
         IF col = ITEM_ID
         THEN IF ITEM_ID \in DOMAIN colIdx
              THEN [err |-> Err(ErrReoccurringColumn, ITEM_ID),
                    colIndexes |-> EmptyMap, seenLevels |-> seenLevels]
              ELSE ColLoop(columns, i + 1, MapPut(colIdx, ITEM_ID, i - 1), seenLevels)
         ELSE IF HasPrefix(col, LV_PREFIX)
         THEN LET levelNum == Atoi(TrimPrefix(col, LV_PREFIX)) IN
              IF ~levelNum.ok
              THEN [err |-> Err(ErrUnknownColumn, col),
                    colIndexes |-> EmptyMap, seenLevels |-> seenLevels]
              ELSE IF levelNum.val \in seenLevels
              THEN [err |-> Err(ErrReoccurringColumn, col),
                    colIndexes |-> EmptyMap, seenLevels |-> seenLevels]
              ELSE ColLoop(columns, i + 1, MapPut(colIdx, col, i - 1),
                           seenLevels \cup {levelNum.val})
         ELSE [err |-> Err(ErrUnknownColumn, col),
               colIndexes |-> EmptyMap, seenLevels |-> seenLevels]

\* Faulty variant of extractColIndexes: the depths seen are not checked for gaps.
extractColIndexesNoGapCheck(columns) ==
    LET r == ColLoop(columns, 1, EmptyMap, {}) IN
    IF r.err # NoErr
    THEN [err |-> r.err, colIndexes |-> EmptyMap]
    ELSE IF ITEM_ID \notin DOMAIN r.colIndexes
    THEN [err |-> Err(ErrMissingRequiredColumn, ITEM_ID), colIndexes |-> EmptyMap]
    ELSE IF LevelName(1) \notin DOMAIN r.colIndexes
    THEN [err |-> Err(ErrMissingRequiredColumn, LevelName(1)), colIndexes |-> EmptyMap]
    ELSE [err |-> NoErr, colIndexes |-> r.colIndexes]

\* Faulty variant of extractColIndexes: level_1 is not checked to be present.
extractColIndexesNoLevel1Check(columns) ==
    LET r == ColLoop(columns, 1, EmptyMap, {}) IN
    IF r.err # NoErr
    THEN [err |-> r.err, colIndexes |-> EmptyMap]
    ELSE IF ITEM_ID \notin DOMAIN r.colIndexes
    THEN [err |-> Err(ErrMissingRequiredColumn, ITEM_ID), colIndexes |-> EmptyMap]
    ELSE IF \E level \in r.seenLevels : level > 1 /\ (level - 1) \notin r.seenLevels
    THEN [err |-> Err(ErrMissingParentElement, <<>>), colIndexes |-> EmptyMap]
    ELSE [err |-> NoErr, colIndexes |-> r.colIndexes]

\* Faulty variant of extractColIndexes: the required roles are looked for
\* before the columns are judged one by one.
extractColIndexesRolesFirst(columns) ==
    LET names == {columns[i] : i \in DOMAIN columns}
        r == ColLoop(columns, 1, EmptyMap, {}) IN
    IF ITEM_ID \notin names
    THEN [err |-> Err(ErrMissingRequiredColumn, ITEM_ID), colIndexes |-> EmptyMap]
    ELSE IF LevelName(1) \notin names
    THEN [err |-> Err(ErrMissingRequiredColumn, LevelName(1)), colIndexes |-> EmptyMap]
    ELSE IF r.err # NoErr
    THEN [err |-> r.err, colIndexes |-> EmptyMap]
    ELSE IF \E level \in r.seenLevels : level > 1 /\ (level - 1) \notin r.seenLevels
    THEN [err |-> Err(ErrMissingParentElement, <<>>), colIndexes |-> EmptyMap]
    ELSE [err |-> NoErr, colIndexes |-> r.colIndexes]

extractColIndexes(columns) ==
    LET r == ColLoop(columns, 1, EmptyMap, {}) IN
    IF r.err # NoErr
    THEN [err |-> r.err, colIndexes |-> EmptyMap]
    ELSE IF ITEM_ID \notin DOMAIN r.colIndexes
    THEN [err |-> Err(ErrMissingRequiredColumn, ITEM_ID), colIndexes |-> EmptyMap]
    ELSE IF LevelName(1) \notin DOMAIN r.colIndexes
    THEN [err |-> Err(ErrMissingRequiredColumn, LevelName(1)), colIndexes |-> EmptyMap]
    ELSE IF \E level \in r.seenLevels : level > 1 /\ (level - 1) \notin r.seenLevels
    THEN [err |-> Err(ErrMissingParentElement, <<>>), colIndexes |-> EmptyMap]
    ELSE [err |-> NoErr, colIndexes |-> r.colIndexes]

\* ------------------------------------------------- extractHierarchyLevels
\* Faulty variant of LevelLoop: an empty level is appended to the path too.
RECURSIVE LevelLoopAppendsEmpty(_, _, _, _, _)
LevelLoopAppendsEmpty(row, colIdx, i, levels, currentParent) ==
    IF i > Cardinality(DOMAIN colIdx) - 1
    THEN [err |-> NoErr, levels |-> levels]
    ELSE LET colName == LevelName(i) IN
         IF colName \notin DOMAIN colIdx
         THEN [err |-> Err(ErrMissingIndex, colName), levels |-> <<>>]
         ELSE IF colIdx[colName] >= Len(row)
         THEN [err |-> Err(ErrMissingRequiredValue, colName), levels |-> <<>>]
         ELSE LET currentLevel == row[colIdx[colName] + 1] IN
              IF i # 1 /\ currentParent = "" /\ currentLevel # ""
              THEN [err |-> Err(ErrMissingParentElement, <<>>), levels |-> <<>>]
              ELSE LevelLoopAppendsEmpty(row, colIdx, i + 1,
                                         Append(levels, currentLevel), currentLevel)

\* Faulty variant of LevelLoop: currentParent is updated only by a non-empty
\* level, so an empty level is forgotten once a deeper one is read.
RECURSIVE LevelLoopKeepsParent(_, _, _, _, _)
LevelLoopKeepsParent(row, colIdx, i, levels, currentParent) ==
    IF i > Cardinality(DOMAIN colIdx) - 1
    THEN [err |-> NoErr, levels |-> levels]
    ELSE LET colName == LevelName(i) IN
         IF colName \notin DOMAIN colIdx
         THEN [err |-> Err(ErrMissingIndex, colName), levels |-> <<>>]
         ELSE IF colIdx[colName] >= Len(row)
         THEN [err |-> Err(ErrMissingRequiredValue, colName), levels |-> <<>>]
         ELSE LET currentLevel == row[colIdx[colName] + 1] IN
              IF i # 1 /\ currentParent = "" /\ currentLevel # ""
              THEN [err |-> Err(ErrMissingParentElement, <<>>), levels |-> <<>>]
              ELSE LevelLoopKeepsParent(row, colIdx, i + 1,
                             IF currentLevel # "" THEN Append(levels, currentLevel)
                                                  ELSE levels,
                             IF currentLevel # "" THEN currentLevel ELSE currentParent)

\* The level loop: i is the logical depth, currentParent the previous value.
RECURSIVE LevelLoop(_, _, _, _, _)
LevelLoop(row, colIdx, i, levels, currentParent) ==
    IF i > Cardinality(DOMAIN colIdx) - 1
    THEN [err |-> NoErr, levels |-> levels]
    ELSE LET colName == LevelName(i) IN
         IF colName \notin DOMAIN colIdx
         THEN [err |-> Err(ErrMissingIndex, colName), levels |-> <<>>]
         ELSE IF colIdx[colName] >= Len(row)
         THEN [err |-> Err(ErrMissingRequiredValue, colName), levels |-> <<>>]
         ELSE LET currentLevel == row[colIdx[colName] + 1] IN
              IF i # 1 /\ currentParent = "" /\ currentLevel # ""
              THEN [err |-> Err(ErrMissingParentElement, <<>>), levels |-> <<>>]
              ELSE LevelLoop(row, colIdx, i + 1,
                             IF currentLevel # "" THEN Append(levels, currentLevel)
                                                  ELSE levels,
                             currentLevel)

extractHierarchyLevels(row, colIdx) == LevelLoop(row, colIdx, 1, <<>>, "")

\* Faulty variant of rowToInsert: the item_id index is checked before the
\* levels are extracted.
rowToInsertItemFirst(row, colIdx) ==
    IF ITEM_ID \notin DOMAIN colIdx \/ colIdx[ITEM_ID] >= Len(row)
    THEN [err |-> Err(ErrMissingRequiredValue, ITEM_ID), levels |-> <<>>, itemID |-> ""]
    ELSE LET lv == extractHierarchyLevels(row, colIdx) IN
         IF lv.err # NoErr
         THEN [err |-> lv.err, levels |-> <<>>, itemID |-> ""]
         ELSE [err |-> NoErr, levels |-> lv.levels, itemID |-> row[colIdx[ITEM_ID] + 1]]

\* Faulty variant of rowToInsert: a row too short for its item identifier is
\* inserted with the empty identifier.
rowToInsertNoItemCheck(row, colIdx) ==
    LET lv == extractHierarchyLevels(row, colIdx) IN
    IF lv.err # NoErr
    THEN [err |-> lv.err, levels |-> <<>>, itemID |-> ""]
    ELSE IF ITEM_ID \notin DOMAIN colIdx \/ colIdx[ITEM_ID] >= Len(row)
    THEN [err |-> NoErr, levels |-> lv.levels, itemID |-> ""]
    ELSE [err |-> NoErr, levels |-> lv.levels, itemID |-> row[colIdx[ITEM_ID] + 1]]

\* The part of parseRow between the receive and the AddNode call: the levels
\* and the item identifier of a dequeued row, or the error parseRow returns.
rowToInsert(row, colIdx) ==
    LET lv == extractHierarchyLevels(row, colIdx) IN
    IF lv.err # NoErr
    THEN [err |-> lv.err, levels |-> <<>>, itemID |-> ""]
    ELSE IF ITEM_ID \notin DOMAIN colIdx \/ colIdx[ITEM_ID] >= Len(row)
    THEN [err |-> Err(ErrMissingRequiredValue, ITEM_ID), levels |-> <<>>, itemID |-> ""]
    ELSE [err |-> NoErr, levels |-> lv.levels, itemID |-> row[colIdx[ITEM_ID] + 1]]

\* ------------------------------------------------------------ domain.Node
\* The tree: key path from the root |-> the node's fields.  hasMap tells a
\* nil Children map from an allocated one; the children of the node at p are
\* the paths p \o <<k>> of the domain.
NewNode == (<<>> :> [Item |-> FALSE, hasMap |-> FALSE])

IsPrefix(p, q) == Len(p) <= Len(q) /\ SubSeq(q, 1, Len(p)) = p

\* if current.Children == nil { current.Children = make(map[string]*Node) }
\* (a node that is no longer linked into the tree changes nothing in it)
EnsureMap(t, cur) ==
    IF cur \notin DOMAIN t \/ t[cur].hasMap THEN t ELSE [t EXCEPT ![cur].hasMap = TRUE]

\* Faulty variant of PutChild: an item whose key is already a child is put
\* below that child instead of replacing it.
PutChildBelowExisting(t, cur, key, item) ==
    LET q0 == Append(cur, key)
        p == IF item /\ q0 \in DOMAIN t THEN Append(q0, key) ELSE q0
        keep == {q \in DOMAIN t : ~IsPrefix(p, q)}
    IN  IF cur \notin DOMAIN t THEN t
        ELSE [q \in keep \cup {p} |->
                 IF q = p THEN [Item |-> item, hasMap |-> FALSE]
                 ELSE IF q = q0 THEN [t[q] EXCEPT !.hasMap = TRUE]
                 ELSE t[q]]

\* current.Children[key] = &Node{Item: item}: the entry now points to a fresh
\* node without children; whatever hung below the old entry is unreachable.
PutChild(t, cur, key, item) ==
    LET p == Append(cur, key)
        keep == {q \in DOMAIN t : ~IsPrefix(p, q)}
    IN  IF cur \notin DOMAIN t THEN t
        ELSE [q \in keep \cup {p} |->
                 IF q = p THEN [Item |-> item, hasMap |-> FALSE] ELSE t[q]]

\* if _, exists := current.Children[level]; !exists { current.Children[level] = &Node{} }
EnsureChild(t, cur, level) ==
    IF Append(cur, level) \in DOMAIN t THEN t ELSE PutChild(t, cur, level, FALSE)

\* current.Children[itemID] = &Node{Item: true}, after the nil check of the map
SetLeaf(t, cur, itemID) == PutChild(EnsureMap(t, cur), cur, itemID, TRUE)

\* The whole of AddNode on a tree no other goroutine touches.
RECURSIVE AddLevels(_, _, _)
AddLevels(t, levels, i) ==
    IF i > Len(levels) THEN t
    ELSE LET cur == SubSeq(levels, 1, i - 1) IN
         AddLevels(EnsureChild(EnsureMap(t, cur), cur, levels[i]), levels, i + 1)

AddNode(t, levels, itemID) == SetLeaf(AddLevels(t, levels, 1), levels, itemID)

\* ------------------------------------------------------------------ inputs
Rec(fields) == [bad |-> FALSE, fields |-> fields]
BadRecord == [bad |-> TRUE, fields |-> <<>>]

Headers ==
    {Rec(<<LevelName(1), LevelName(2), ITEM_ID>>),
     Rec(<<ITEM_ID, LevelName(1)>>),
     Rec(<<LevelName(1), LevelName(3), ITEM_ID>>)}

DataRecords ==
    {Rec(<<"a", "b", "c">>),
     Rec(<<"a", "", "b">>),
     Rec(<<"", "b", "c">>),
     Rec(<<"a", "b">>),
     BadRecord}

RECURSIVE SeqsUpTo(_, _)
SeqsUpTo(S, n) ==
    IF n = 0 THEN {<<>>}
    ELSE LET shorter == SeqsUpTo(S, n - 1) IN
         shorter \cup {Append(q, x) : q \in {r \in shorter : Len(r) = n - 1}, x \in S}

\* An input stream: nothing at all, or a header record and up to MaxRows data records.
Files == {<<>>} \cup {<<h>> \o d : h \in Headers, d \in SeqsUpTo(DataRecords, MaxRows)}

\* Column names a header can hold: the roles, and names the header loop
\* has to judge (depth 0, a zero-padded depth, a negative depth, a suffix
\* that is no integer, a name without the level prefix).
ColumnNames ==
    {ITEM_ID, LevelName(1), LevelName(2), LevelName(3),
     LV_PREFIX \o <<"0">>, LV_PREFIX \o <<"0", "2">>, LV_PREFIX \o <<"-", "1">>,
     LV_PREFIX \o <<"x">>, <<"n", "a", "m", "e">>}

\* An input that is a header only: every header of 1..MaxCols such columns.
HeaderFiles == {<<Rec(h)>> : h \in SeqsUpTo(ColumnNames, MaxCols) \ {<<>>}}

\* Rows handed to parseRow directly: for a header h, every row of 1..Len(h)
\* fields whose field in column j is empty or the letter of that column, so
\* that a value tells the column it came from.
ShortHeader == <<LevelName(1), LevelName(2), ITEM_ID>>
ShuffledHeader == <<LevelName(3), LevelName(1), LevelName(2), ITEM_ID>>
ColumnLetters == <<"a", "b", "c", "d">>
RECURSIVE RowsOfLen(_)
RowsOfLen(n) ==
    IF n = 0 THEN {<<>>}
    ELSE {Append(q, x) : q \in RowsOfLen(n - 1), x \in {"", ColumnLetters[n]}}
RowsFor(h) == UNION {RowsOfLen(n) : n \in 1..Len(h)}
\* A header and 1..MaxRows such rows.
RowFilesFor(h) ==
    {<<Rec(h)>> \o d : d \in SeqsUpTo({Rec(r) : r \in RowsFor(h)}, MaxRows) \ {<<>>}}
RowFiles == RowFilesFor(ShortHeader) \cup RowFilesFor(ShuffledHeader)

\* ------------------------------------------------------------------- state
VARIABLES
    file,            \* the records of the input stream, header first
    requested,       \* the concurrency NewCSVParser was called with
    concurrency,     \* CSVParser.concurrency
    callerCancelled, \* the caller's context has been cancelled
    cancelledWhileFull, \* history: the caller cancelled while the producer was
                     \*          suspended in its select on a full rowChan
    pfPc,            \* ParseFile: "start", "wait" (in errG.Wait), "returned"
    readPos,         \* csvReader: records consumed so far
    fieldsPerRecord, \* csvReader.FieldsPerRecord
    colIndexes,      \* the schema parseHeader returned
    nodes,           \* the tree ParseFile builds
    mu,              \* nodes.mu: 0 when free, else the worker that holds it
    rowChan,         \* buffered records of rowChan
    chanClosed,      \* rowChan has been closed
    prodPc,          \* producer: "idle", "read", "select", "exit", "done"
    prodRow,         \* the record the producer is about to send
    wPc,             \* worker: "idle", "select", "lock", "loopMap", "loopChild",
                     \*         "leafMap", "leafSet", "unlock", "exit", "done"
    wRow,            \* the record a worker dequeued last
    wLevels,         \* AddNode's levels argument
    wItem,           \* AddNode's itemID argument
    wI,              \* AddNode: number of levels descended (current = first wI levels)
    tRes,            \* value each task function returned (task 0 is the producer)
    gErr,            \* errgroup: the error errOnce recorded
    firstFailed,     \* errgroup: the task whose error errOnce recorded, -1 if none
    groupCancelled,  \* the group's derived context has been cancelled
    ret,             \* what ParseFile returned
    pubCount,        \* per data record: times sent on rowChan
    deqCount,        \* per data record: times received from rowChan
    addCount         \* per data record: AddNode calls that returned

vars ==
    <<file, requested, concurrency, callerCancelled, cancelledWhileFull, pfPc, readPos, fieldsPerRecord, colIndexes,
      nodes, mu, rowChan, chanClosed, prodPc, prodRow, wPc, wRow, wLevels, wItem, wI,
      tRes, gErr, firstFailed, groupCancelled, ret, pubCount, deqCount, addCount>>

inputVars == <<file, requested, concurrency>>
cancelVars == <<callerCancelled, cancelledWhileFull>>
readerVars == <<readPos, fieldsPerRecord>>
treeVars == <<nodes, mu>>
chanVars == <<rowChan, chanClosed>>
prodVars == <<prodPc, prodRow>>
addVars == <<wLevels, wItem, wI>>
groupVars == <<gErr, firstFailed, groupCancelled>>
countVars == <<pubCount, deqCount, addCount>>

Workers == 1..concurrency
Producer == 0
Tasks == {Producer} \cup Workers
NumRows == IF file = <<>> THEN 0 ELSE Len(file) - 1
RowIds == 1..NumRows

Pending == Err("pending", <<>>)
NoRow == [idx |-> 0, row |-> <<>>]
NilTree == [nil |-> TRUE, tree |-> NewNode]
NotReturned == [returned |-> FALSE, tree |-> NilTree, err |-> NoErr]

\* The context the tasks see: derived from the caller's by errgroup.WithContext.
ctxDone == callerCancelled \/ groupCancelled

\* ParseFile has been called and has not run yet.
Called ==
    /\ callerCancelled = FALSE
    /\ cancelledWhileFull = FALSE
    /\ pfPc = "start"
    /\ readPos = 0
    /\ fieldsPerRecord = 0
    /\ colIndexes = EmptyMap
    /\ nodes = NewNode
    /\ mu = 0
    /\ rowChan = <<>>
    /\ chanClosed = FALSE
    /\ prodPc = "idle"
    /\ prodRow = NoRow
    /\ wPc = [w \in Workers |-> "idle"]
    /\ wRow = [w \in Workers |-> NoRow]
    /\ wLevels = [w \in Workers |-> <<>>]
    /\ wItem = [w \in Workers |-> ""]
    /\ wI = [w \in Workers |-> 0]
    /\ tRes = [t \in Tasks |-> Pending]
    /\ gErr = NoErr
    /\ firstFailed = -1
    /\ groupCancelled = FALSE
    /\ ret = NotReturned
    /\ pubCount = [i \in RowIds |-> 0]
    /\ deqCount = [i \in RowIds |-> 0]
    /\ addCount = [i \in RowIds |-> 0]

\* Faulty variant of NewCSVParser: the argument is stored as it is.
NewCSVParserAsGiven(c) == c

\* NewCSVParser: the concurrency the parser it returns holds.
NewCSVParser(c) == IF c < 1 THEN 10 ELSE c

Init ==
    /\ file \in Files
    /\ requested \in 1..MaxWorkers
    /\ concurrency = NewCSVParser(requested)
    /\ Called

\* -------------------------------------------------------------- ParseFile
\* What ParseFile hands back: (nil, err) or (nodes, nil).
ReturnErr(err) == [returned |-> TRUE, tree |-> NilTree, err |-> err]
ReturnTree(t) == [returned |-> TRUE, tree |-> [nil |-> FALSE, tree |-> t], err |-> NoErr]

\* Faulty variant of parseHeader: the error of extractColIndexes is dropped.
parseHeaderDropsSchemaErr(f) ==
    LET r == csvRead(f, 0, 0) IN
    IF r.err # NoErr
    THEN [err |-> r.err, colIndexes |-> EmptyMap, fpr |-> r.fpr]
    ELSE LET c == extractColIndexes(r.row) IN
         [err |-> NoErr, colIndexes |-> c.colIndexes, fpr |-> r.fpr]

\* parseHeader: read the first record and resolve the schema.
parseHeader(f) ==
    LET r == csvRead(f, 0, 0) IN
    IF r.err # NoErr
    THEN [err |-> r.err, colIndexes |-> EmptyMap, fpr |-> r.fpr]
    ELSE LET c == extractColIndexes(r.row) IN
         [err |-> c.err, colIndexes |-> c.colIndexes, fpr |-> r.fpr]

\* ParseFile up to errG.Wait: resolve the header, then start the producer and
\* the workers (a goroutine that was started and has not run yet is in its
\* first position).
ParseHeader ==
    /\ pfPc = "start"
    /\ LET h == parseHeader(file) IN
       IF h.err # NoErr
       THEN /\ pfPc' = "returned"
            /\ ret' = ReturnErr(h.err)
            /\ UNCHANGED <<readerVars, colIndexes, prodPc, wPc>>
       ELSE /\ pfPc' = "wait"
            /\ colIndexes' = h.colIndexes
            /\ readPos' = 1
            /\ fieldsPerRecord' = h.fpr
            /\ prodPc' = "read"
            /\ wPc' = [w \in Workers |-> "select"]
            /\ ret' = ret
    /\ UNCHANGED <<inputVars, cancelVars, treeVars, chanVars, prodRow, wRow,
                   addVars, tRes, groupVars, countVars>>

\* The caller cancels the context it passed to ParseFile.
CallerCancel ==
    /\ ~callerCancelled
    /\ pfPc # "returned"
    /\ callerCancelled' = TRUE
    /\ cancelledWhileFull' = (prodPc = "select" /\ Len(rowChan) >= QueueCap)
    /\ UNCHANGED <<inputVars, pfPc, readerVars, colIndexes, treeVars, chanVars,
                   prodVars, wPc, wRow, addVars, tRes, groupVars, ret, countVars>>

\* --------------------------------------------------------------- errgroup
\* Faulty variant of errOnceFires: every failing task overwrites the recorded error.
errEveryTimeFires(err) == err # NoErr

\* errgroup.Go's wrapper after the task function returned err: errOnce keeps
\* the first non-nil error and cancels the group's context.
errOnceFires(err) == err # NoErr /\ firstFailed = -1

GroupDone(t) ==
    IF errOnceFires(tRes[t])
    THEN /\ gErr' = tRes[t]
         /\ firstFailed' = t
         /\ groupCancelled' = TRUE
    ELSE UNCHANGED groupVars

\* Faulty variant of AllTasksDone: Wait that returns as soon as an error is recorded.
AllTasksDoneOrFailed ==
    (prodPc = "done" /\ \A w \in Workers : wPc[w] = "done") \/ firstFailed # -1

\* errG.Wait returns once every task has finished.
AllTasksDone == prodPc = "done" /\ \A w \in Workers : wPc[w] = "done"

\* Faulty variant of WaitResult: the tree is handed back next to the error.
WaitResultWithTree(err, t) ==
    [returned |-> TRUE, tree |-> [nil |-> FALSE, tree |-> t], err |-> err]

\* ParseFile after errG.Wait: (nil, err) if the group recorded an error,
\* else (nodes, nil).
WaitResult(err, t) == IF err # NoErr THEN ReturnErr(err) ELSE ReturnTree(t)

Wait ==
    /\ pfPc = "wait"
    /\ AllTasksDone
    /\ pfPc' = "returned"
    /\ groupCancelled' = TRUE
    /\ ret' = WaitResult(gErr, nodes)
    /\ UNCHANGED <<inputVars, cancelVars, readerVars, colIndexes, treeVars,
                   chanVars, prodVars, wPc, wRow, addVars, tRes, gErr, firstFailed,
                   countVars>>

\* --------------------------------------------------------------- producer
\* Faulty variant of ProducerReturn: a failed read ends the loop like the end
\* of the input, with a nil error.
ProducerReturnReadErrAsEOF(err) ==
    /\ tRes' = [tRes EXCEPT
                   ![Producer] = IF err.kind \in {ErrFieldCount, ErrParse} THEN NoErr ELSE err]
    /\ chanClosed' = TRUE
    /\ prodPc' = "exit"

\* Faulty variant of ProducerReturn: rowChan is closed on a nil return only.
ProducerReturnCloseOnNil(err) ==
    /\ tRes' = [tRes EXCEPT ![Producer] = err]
    /\ chanClosed' = (err = NoErr)
    /\ prodPc' = "exit"

\* The producer's function returns err; the deferred close(rowChan) runs.
ProducerReturn(err) ==
    /\ tRes' = [tRes EXCEPT ![Producer] = err]
    /\ chanClosed' = TRUE
    /\ prodPc' = "exit"

\* csvReader.Read() and the two checks that follow it.
ProducerRead ==
    /\ prodPc = "read"
    /\ LET r == csvRead(file, readPos, fieldsPerRecord) IN
       IF r.err.kind = ErrEOF
       THEN /\ ProducerReturn(NoErr)
            /\ UNCHANGED <<readerVars, prodRow>>
       ELSE IF r.err # NoErr
       THEN /\ ProducerReturn(r.err)
            /\ readPos' = readPos + 1
            /\ UNCHANGED <<fieldsPerRecord, prodRow>>
       ELSE /\ prodRow' = [idx |-> readPos, row |-> r.row]
            /\ readPos' = readPos + 1
            /\ fieldsPerRecord' = r.fpr
            /\ prodPc' = "select"
            /\ UNCHANGED <<tRes, chanClosed>>
    /\ UNCHANGED <<inputVars, cancelVars, pfPc, colIndexes, treeVars, rowChan,
                   wPc, wRow, addVars, groupVars, ret, countVars>>

\* Faulty variant of CanSend: the send never waits for a free slot.
CanSendAlways == TRUE

\* select, case rowChan <- row: ready whenever the buffer has a free slot.
CanSend == Len(rowChan) < QueueCap

\* Faulty variant of ProducerSend: a non-blocking send that drops the record
\* when the buffer is full.
ProducerSendOrDrop ==
    /\ prodPc = "select"
    /\ IF CanSend
       THEN /\ rowChan' = Append(rowChan, prodRow)
            /\ pubCount' = [pubCount EXCEPT ![prodRow.idx] = @ + 1]
       ELSE UNCHANGED <<rowChan, pubCount>>
    /\ prodRow' = NoRow
    /\ prodPc' = "read"
    /\ UNCHANGED <<inputVars, cancelVars, pfPc, readerVars, colIndexes, treeVars,
                   chanClosed, wPc, wRow, addVars, tRes, groupVars, ret,
                   deqCount, addCount>>

ProducerSend ==
    /\ prodPc = "select"
    /\ CanSend
    /\ rowChan' = Append(rowChan, prodRow)
    /\ pubCount' = [pubCount EXCEPT ![prodRow.idx] = @ + 1]
    /\ prodRow' = NoRow
    /\ prodPc' = "read"
    /\ UNCHANGED <<inputVars, cancelVars, pfPc, readerVars, colIndexes, treeVars,
                   chanClosed, wPc, wRow, addVars, tRes, groupVars, ret,
                   deqCount, addCount>>

\* Faulty variant of ProducerCancel: the producer notices the cancellation
\* only while the queue has room.
ProducerCancelWithRoom ==
    /\ prodPc = "select"
    /\ ctxDone
    /\ CanSend
    /\ ProducerReturn(Err(Canceled, <<>>))
    /\ UNCHANGED <<inputVars, cancelVars, pfPc, readerVars, colIndexes, treeVars,
                   rowChan, prodRow, wPc, wRow, addVars, groupVars, ret, countVars>>

\* select, case <-ctx.Done(): return ctx.Err().
ProducerCancel ==
    /\ prodPc = "select"
    /\ ctxDone
    /\ ProducerReturn(Err(Canceled, <<>>))
    /\ UNCHANGED <<inputVars, cancelVars, pfPc, readerVars, colIndexes, treeVars,
                   rowChan, prodRow, wPc, wRow, addVars, groupVars, ret, countVars>>

\* The producer's goroutine ends: errgroup records its error, wg.Done().
ProducerExit ==
    /\ prodPc = "exit"
    /\ GroupDone(Producer)
    /\ prodPc' = "done"
    /\ UNCHANGED <<inputVars, cancelVars, pfPc, readerVars, colIndexes, treeVars,
                   chanVars, prodRow, wPc, wRow, addVars, tRes, ret, countVars>>

\* ---------------------------------------------------------------- workers
\* Faulty variant of WorkerReturn: a record error is dropped and the loop goes on.
WorkerReturnSkipsBadRow(w, err) ==
    IF err.kind \in {ErrMissingParentElement, ErrMissingRequiredValue}
    THEN /\ tRes' = tRes
         /\ wPc' = [wPc EXCEPT ![w] = "select"]
    ELSE /\ tRes' = [tRes EXCEPT ![w] = err]
         /\ wPc' = [wPc EXCEPT ![w] = "exit"]

\* parseRow returns err.
WorkerReturn(w, err) ==
    /\ tRes' = [tRes EXCEPT ![w] = err]
    /\ wPc' = [wPc EXCEPT ![w] = "exit"]

\* select, case row, ok := <-rowChan with ok true: a buffered record is
\* received (also from a closed channel), validated and handed to AddNode.
WorkerRecv(w) ==
    /\ wPc[w] = "select"
    /\ rowChan # <<>>
    /\ LET m == Head(rowChan)
           r == rowToInsert(m.row, colIndexes)
       IN  /\ rowChan' = Tail(rowChan)
           /\ deqCount' = [deqCount EXCEPT ![m.idx] = @ + 1]
           /\ wRow' = [wRow EXCEPT ![w] = m]
           /\ IF r.err # NoErr
              THEN /\ WorkerReturn(w, r.err)
                   /\ UNCHANGED addVars
              ELSE /\ wLevels' = [wLevels EXCEPT ![w] = r.levels]
                   /\ wItem' = [wItem EXCEPT ![w] = r.itemID]
                   /\ wPc' = [wPc EXCEPT ![w] = "lock"]
                   /\ UNCHANGED <<wI, tRes>>
    /\ UNCHANGED <<inputVars, cancelVars, pfPc, readerVars, colIndexes, treeVars,
                   chanClosed, prodVars, groupVars, ret, pubCount, addCount>>

\* Faulty variant of ChanDrained: an empty buffer is taken for the end of the stream.
ChanEmpty == rowChan = <<>>

\* Faulty variant of ChanDrained: a closed channel is taken for a drained one.
ChanClosedOnly == chanClosed

\* The receive yields ok = false: the channel is closed and its buffer empty.
ChanDrained == rowChan = <<>> /\ chanClosed

WorkerClosed(w) ==
    /\ wPc[w] = "select"
    /\ ChanDrained
    /\ WorkerReturn(w, NoErr)
    /\ UNCHANGED <<inputVars, cancelVars, pfPc, readerVars, colIndexes, treeVars,
                   chanVars, prodVars, wRow, addVars, groupVars, ret, countVars>>

\* select, case <-ctx.Done(): return ctx.Err().
WorkerCancel(w) ==
    /\ wPc[w] = "select"
    /\ ctxDone
    /\ WorkerReturn(w, Err(Canceled, <<>>))
    /\ UNCHANGED <<inputVars, cancelVars, pfPc, readerVars, colIndexes, treeVars,
                   chanVars, prodVars, wRow, addVars, groupVars, ret, countVars>>

\* The worker's goroutine ends: errgroup records its error, wg.Done().
WorkerExit(w) ==
    /\ wPc[w] = "exit"
    /\ GroupDone(w)
    /\ wPc' = [wPc EXCEPT ![w] = "done"]
    /\ UNCHANGED <<inputVars, cancelVars, pfPc, readerVars, colIndexes, treeVars,
                   chanVars, prodVars, wRow, addVars, tRes, ret, countVars>>

\* ---------------------------------------------------------------- AddNode
\* AddNode statement by statement, as run by worker w.
\* current: the node reached after wI[w] levels.
current(w) == SubSeq(wLevels[w], 1, wI[w])

AddNodeFrame ==
    UNCHANGED <<inputVars, cancelVars, pfPc, readerVars, colIndexes, chanVars,
                prodVars, tRes, groupVars, ret, pubCount, deqCount>>

\* Faulty variant of MuFree: Lock() that never waits.
MuFreeAlways == TRUE

\* n.mu.Lock() returns only when the mutex is free.
MuFree == mu = 0

Lock(w) ==
    /\ wPc[w] = "lock"
    /\ MuFree
    /\ mu' = w
    /\ wI' = [wI EXCEPT ![w] = 0]
    /\ wPc' = [wPc EXCEPT ![w] = IF wLevels[w] = <<>> THEN "leafMap" ELSE "loopMap"]
    /\ UNCHANGED <<nodes, addCount, wRow, wLevels, wItem>>
    /\ AddNodeFrame

\* loop body: if current.Children == nil { make }
LoopMap(w) ==
    /\ wPc[w] = "loopMap"
    /\ nodes' = EnsureMap(nodes, current(w))
    /\ wPc' = [wPc EXCEPT ![w] = "loopChild"]
    /\ UNCHANGED <<mu, wI, addCount, wRow, wLevels, wItem>>
    /\ AddNodeFrame

\* loop body: create the child if it is missing, then current = the child
LoopChild(w) ==
    /\ wPc[w] = "loopChild"
    /\ nodes' = EnsureChild(nodes, current(w), wLevels[w][wI[w] + 1])
    /\ wI' = [wI EXCEPT ![w] = @ + 1]
    /\ wPc' = [wPc EXCEPT ![w] =
                  IF wI[w] + 1 = Len(wLevels[w]) THEN "leafMap" ELSE "loopMap"]
    /\ UNCHANGED <<mu, addCount, wRow, wLevels, wItem>>
    /\ AddNodeFrame

\* after the loop: if current.Children == nil { make }
LeafMap(w) ==
    /\ wPc[w] = "leafMap"
    /\ nodes' = EnsureMap(nodes, current(w))
    /\ wPc' = [wPc EXCEPT ![w] = "leafSet"]
    /\ UNCHANGED <<mu, wI, addCount, wRow, wLevels, wItem>>
    /\ AddNodeFrame

\* current.Children[itemID] = &Node{Item: true}
LeafSet(w) ==
    /\ wPc[w] = "leafSet"
    /\ nodes' = PutChild(nodes, current(w), wItem[w], TRUE)
    /\ wPc' = [wPc EXCEPT ![w] = "unlock"]
    /\ UNCHANGED <<mu, wI, addCount, wRow, wLevels, wItem>>
    /\ AddNodeFrame

\* deferred n.mu.Unlock(); AddNode returns and parseRow loops to its select
\* (row, levels and the locals of AddNode go out of scope)
Unlock(w) ==
    /\ wPc[w] = "unlock"
    /\ mu' = 0
    /\ addCount' = [addCount EXCEPT ![wRow[w].idx] = @ + 1]
    /\ wPc' = [wPc EXCEPT ![w] = "select"]
    /\ wRow' = [wRow EXCEPT ![w] = NoRow]
    /\ wLevels' = [wLevels EXCEPT ![w] = <<>>]
    /\ wItem' = [wItem EXCEPT ![w] = ""]
    /\ wI' = [wI EXCEPT ![w] = 0]
    /\ nodes' = nodes
    /\ AddNodeFrame

\* ------------------------------------------------------------ the program
Next ==
    \/ ParseHeader
    \/ CallerCancel
    \/ ProducerRead
    \/ ProducerSend
    \/ ProducerCancel
    \/ ProducerExit
    \/ \E w \in Workers : WorkerRecv(w)
    \/ \E w \in Workers : WorkerClosed(w)
    \/ \E w \in Workers : WorkerCancel(w)
    \/ \E w \in Workers : WorkerExit(w)
    \/ \E w \in Workers : Lock(w)
    \/ \E w \in Workers : LoopMap(w)
    \/ \E w \in Workers : LoopChild(w)
    \/ \E w \in Workers : LeafMap(w)
    \/ \E w \in Workers : LeafSet(w)
    \/ \E w \in Workers : Unlock(w)
    \/ Wait

Spec == Init /\ [][Next]_vars

\* Every step the program takes itself; CallerCancel is the caller's.
Program ==
    \/ ParseHeader
    \/ ProducerRead
    \/ ProducerSend
    \/ ProducerCancel
    \/ ProducerExit
    \/ \E w \in Workers : WorkerRecv(w)
    \/ \E w \in Workers : WorkerClosed(w)
    \/ \E w \in Workers : WorkerCancel(w)
    \/ \E w \in Workers : WorkerExit(w)
    \/ \E w \in Workers : Lock(w)
    \/ \E w \in Workers : LoopMap(w)
    \/ \E w \in Workers : LoopChild(w)
    \/ \E w \in Workers : LeafMap(w)
    \/ \E w \in Workers : LeafSet(w)
    \/ \E w \in Workers : Unlock(w)
    \/ Wait

\* The Go scheduler runs a goroutine that can run: while some step of the
\* program stays possible, one is taken. Nothing is assumed of the caller.
\* The inputs of the fair runs: nothing at all, or a header and up to
\* MaxRows records, each one valid, or rejected by a worker, or unreadable.
FairFiles ==
    {<<>>} \cup
    {<<Rec(ShortHeader)>> \o d :
        d \in SeqsUpTo({Rec(<<"a", "b", "c">>), Rec(<<"", "b", "c">>), BadRecord}, MaxRows)}

InitFair ==
    /\ file \in FairFiles
    /\ requested \in 1..MaxWorkers
    /\ concurrency = NewCSVParser(requested)
    /\ Called

FairSpec == InitFair /\ [][Next]_vars /\ WF_vars(Program)

\* Header resolution on its own: ParseFile on an input that is one header
\* record, over every header of HeaderFiles.
InitHeader ==
    /\ file \in HeaderFiles
    /\ requested = 1
    /\ concurrency = NewCSVParser(requested)
    /\ Called

NextHeader == ParseHeader

SpecHeader == InitHeader /\ [][NextHeader]_vars

\* parseRow on its own, as TestParseRow runs it: the rows are put on rowChan
\* as they are (short ones too), rowChan is closed, and one parseRow task is
\* started in an errgroup and waited for.
InitRow ==
    /\ file \in RowFiles
    /\ requested = 1
    /\ concurrency = 1
    /\ callerCancelled = FALSE
    /\ cancelledWhileFull = FALSE
    /\ pfPc = "wait"
    /\ readPos = Len(file)
    /\ fieldsPerRecord = Len(file[1].fields)
    /\ colIndexes = extractColIndexes(file[1].fields).colIndexes
    /\ nodes = NewNode
    /\ mu = 0
    /\ rowChan = [n \in RowIds |-> [idx |-> n, row |-> file[n + 1].fields]]
    /\ chanClosed = TRUE
    /\ prodPc = "done"
    /\ prodRow = NoRow
    /\ wPc = [w \in Workers |-> "select"]
    /\ wRow = [w \in Workers |-> NoRow]
    /\ wLevels = [w \in Workers |-> <<>>]
    /\ wItem = [w \in Workers |-> ""]
    /\ wI = [w \in Workers |-> 0]
    /\ tRes = [t \in Tasks |-> IF t = Producer THEN NoErr ELSE Pending]
    /\ gErr = NoErr
    /\ firstFailed = -1
    /\ groupCancelled = FALSE
    /\ ret = NotReturned
    /\ pubCount = [i \in RowIds |-> 1]
    /\ deqCount = [i \in RowIds |-> 0]
    /\ addCount = [i \in RowIds |-> 0]

NextRow ==
    \/ \E w \in Workers : WorkerRecv(w)
    \/ \E w \in Workers : WorkerClosed(w)
    \/ \E w \in Workers : WorkerExit(w)
    \/ \E w \in Workers : Lock(w)
    \/ \E w \in Workers : LoopMap(w)
    \/ \E w \in Workers : LoopChild(w)
    \/ \E w \in Workers : LeafMap(w)
    \/ \E w \in Workers : LeafSet(w)
    \/ \E w \in Workers : Unlock(w)
    \/ Wait

SpecRow == InitRow /\ [][NextRow]_vars

\* Construction and start-up: NewCSVParser with any argument from -1 up,
\* then ParseFile up to errG.Wait.
Requested == -1..MaxWorkers

InitStart ==
    /\ file \in Files
    /\ requested \in Requested
    /\ concurrency = NewCSVParser(requested)
    /\ Called

NextStart == ParseHeader

SpecStart == InitStart /\ [][NextStart]_vars

\* ============================================================== properties
Returned == ret.returned
Success == ret.returned /\ ret.err = NoErr
Failure == ret.returned /\ ret.err # NoErr

\* The schema parseHeader resolved; it stays empty when the header is rejected.
Schema == colIndexes
HeaderOK == DOMAIN colIndexes # {}
DataIds == 2..Len(file)

\* Positions at which worker w is between mu.Lock() and mu.Unlock().
CriticalPcs == {"loopMap", "loopChild", "leafMap", "leafSet", "unlock"}
InCritical(w) == wPc[w] \in CriticalPcs

\* The key sequence of the insert worker w is running: path, then identifier.
KeySeq(w) == Append(wLevels[w], wItem[w])

\* ---- C1
\* The tree one worker builds: AddNode for every data record in file order.
RECURSIVE OneWorkerTree(_, _)
OneWorkerTree(t, i) ==
    IF i > Len(file) THEN t
    ELSE LET r == rowToInsert(file[i].fields, Schema) IN
         OneWorkerTree(AddNode(t, r.levels, r.itemID), i + 1)

\* C1: whenever ParseFile succeeds, with any number of workers, the tree it
\* returns is the tree a single worker builds from the same input.
C1_SameTreeAsOneWorker ==
    Success => ret.tree.tree = OneWorkerTree(NewNode, 2)

\* With one worker the records are inserted in file order.
C1_OneWorkerIsSequential ==
    (Success /\ concurrency = 1) => ret.tree.tree = OneWorkerTree(NewNode, 2)

\* ---- C2
\* C2: at most one worker is between Lock and Unlock, it is the holder of the
\* mutex, the node it has descended to is still linked into the tree, and when
\* it reaches Unlock every node of its key sequence is in the tree.
C2_AddNodeAtomic ==
    /\ Cardinality({w \in Workers : InCritical(w)}) <= 1
    /\ \A w \in Workers :
          InCritical(w) =>
             /\ mu = w
             /\ current(w) \in DOMAIN nodes
             /\ wPc[w] = "unlock" =>
                   /\ \A n \in 1..Len(KeySeq(w)) : SubSeq(KeySeq(w), 1, n) \in DOMAIN nodes
                   /\ nodes[KeySeq(w)].Item

\* One worker is in the middle of its descent while another waits in Lock.
C2_Witness ==
    \E w1, w2 \in Workers :
        /\ w1 # w2
        /\ wPc[w1] = "loopChild"
        /\ wI[w1] = 1
        /\ wPc[w2] = "lock"

\* ---- C3
\* C3: no step removes a node of the tree or changes a node's leaf flag.
C3_InsertMonotonic ==
    [][\A p \in DOMAIN nodes : p \in DOMAIN nodes' /\ nodes'[p].Item = nodes[p].Item]_vars

\* ---- C4
\* A record that fails record validation as the specification words it: a populated
\* level below an empty one, or too few fields for a column of the schema.
TooShort(rec) == \E c \in DOMAIN Schema : Schema[c] >= Len(rec.fields)
LevelValue(rec, k) == rec.fields[Schema[LevelName(k)] + 1]
NumLevels == Cardinality(DOMAIN Schema) - 1
OrphanLevel(rec) ==
    \E k, j \in 1..NumLevels :
        /\ k < j
        /\ LevelName(k) \in DOMAIN Schema /\ LevelName(j) \in DOMAIN Schema
        /\ LevelValue(rec, k) = "" /\ LevelValue(rec, j) # ""
InvalidRecord(rec) == ~rec.bad /\ (TooShort(rec) \/ (~TooShort(rec) /\ OrphanLevel(rec)))
HasInvalidRecord == HeaderOK /\ \E i \in DataIds : InvalidRecord(file[i])

\* C4: an input with an invalid data record never makes ParseFile succeed.
C4_InvalidRecordFails ==
    (Returned /\ HasInvalidRecord) => (ret.tree.nil /\ ret.err # NoErr)

\* A worker's record error is returned after other records were inserted.
C4_Witness ==
    /\ Returned
    /\ HasInvalidRecord
    /\ ret.err.kind = ErrMissingParentElement
    /\ \E i \in RowIds : addCount[i] = 1

\* ---- C5
\* C5: ParseFile returns a tree or an error, never both and never neither, and
\* a tree only when the producer and every worker returned nil.
C5_TreeXorError ==
    Returned =>
        /\ ret.tree.nil <=> ret.err # NoErr
        /\ ret.tree.nil => ret.tree = NilTree
        /\ ~ret.tree.nil => /\ \A t \in Tasks : tRes[t] = NoErr
                            /\ ret.tree.tree = nodes

\* ParseFile fails although the tree already holds nodes.
C5_Witness ==
    /\ Failure
    /\ ret.tree.nil
    /\ nodes # NewNode
    /\ \E w \in Workers : tRes[w] = NoErr

\* ---- C6
\* C6: no record is ever sent, received or inserted twice, and on success
\* every data record was sent once, received once and inserted once, and
\* nothing is left in the queue.
C6_EveryRecordOnce ==
    /\ \A i \in RowIds : pubCount[i] <= 1 /\ deqCount[i] <= pubCount[i]
                         /\ addCount[i] <= deqCount[i]
    /\ Success =>
          /\ \A i \in RowIds : pubCount[i] = 1 /\ deqCount[i] = 1 /\ addCount[i] = 1
          /\ rowChan = <<>>
          /\ readPos = Len(file)

\* Success with several workers on an input of the largest length.
C6_Witness ==
    /\ Success
    /\ NumRows = MaxRows
    /\ concurrency > 1
    /\ \A i \in RowIds : addCount[i] = 1

\* ---- C7
\* C7: once ParseFile has returned, the producer and every worker have
\* finished (or were never started), and nobody holds the tree's mutex.
C7_ReturnAfterAllTasks ==
    Returned =>
        /\ prodPc \in {"idle", "done"}
        /\ \A w \in Workers : wPc[w] \in {"idle", "done"}
        /\ mu = 0

\* ParseFile returned an error after waiting for a worker that was cancelled.
C7_Witness ==
    /\ Failure
    /\ prodPc = "done"
    /\ firstFailed # -1
    /\ \E w \in Workers : w # firstFailed /\ tRes[w].kind = Canceled

\* ---- C8
StreamErrors == {ErrFieldCount, ErrParse}
RecordErrors == {ErrMissingParentElement, ErrMissingRequiredValue, ErrMissingIndex}

\* C8: an error returned from errG.Wait is the error of the task errOnce
\* recorded first; unless the caller cancelled, it is a record or stream
\* error, never the cancellation the other tasks return.
C8_FirstErrorWins ==
    (Failure /\ HeaderOK) =>
        /\ firstFailed \in Tasks
        /\ ret.err = tRes[firstFailed]
        /\ ret.err = gErr
        /\ ~callerCancelled => ret.err.kind \in StreamErrors \cup RecordErrors

\* A record error is returned; a cancelled task's error was discarded.
C8_Witness ==
    /\ Failure
    /\ ~callerCancelled
    /\ firstFailed \in Workers
    /\ ret.err.kind = ErrMissingParentElement
    /\ \E t \in Tasks : t # firstFailed /\ tRes[t].kind = Canceled

\* ---- C9
\* C9: once a worker has failed and the group's context is cancelled, no
\* worker receives a further record and calls AddNode for it.
C9_NoAddNodeAfterCancel ==
    [][(pfPc = "wait" /\ ~callerCancelled /\ groupCancelled
           /\ firstFailed \in Workers /\ gErr.kind \in RecordErrors)
          => \A w \in Workers : wPc'[w] = "lock" => wPc[w] = "lock"]_vars

\* ---- C10
\* C10: once the context is cancelled, the producer sends no further record.
C10_NoSendAfterCancel ==
    [][(pfPc = "wait" /\ ctxDone) => pubCount' = pubCount]_vars

\* ---- C11
\* C11: when the caller cancels while the producer is suspended sending to a
\* full rowChan, ParseFile returns a nil tree and the cancellation, whatever
\* the tasks do next.
C11_CancelWhileFullFails ==
    (Returned /\ cancelledWhileFull) =>
        /\ ret.tree.nil
        /\ ret.err.kind = Canceled

\* ---- C12
\* C12: rowChan never holds more records than its capacity; with the buffer
\* full the producer stays in its select, where it can only give up, and
\* only once the context is cancelled.
C12_QueueWithinCapacity ==
    /\ Len(rowChan) <= QueueCap
    /\ (prodPc = "select" /\ Len(rowChan) = QueueCap) =>
           /\ ~ENABLED ProducerSend
           /\ (ENABLED ProducerCancel) <=> ctxDone

\* The producer is suspended with a record in hand and the buffer full.
C12_Witness ==
    /\ prodPc = "select"
    /\ prodRow # NoRow
    /\ Len(rowChan) = QueueCap
    /\ ~ctxDone

\* ---- C13
PubIds == {i \in RowIds : pubCount[i] > 0}
DeqIds == {i \in RowIds : deqCount[i] > 0}
DataRow(i) == [idx |-> i, row |-> file[i + 1].fields]

Unreadable(rec) == rec.bad \/ Len(rec.fields) # Len(file[1].fields)
ReadFailed == HeaderOK /\ \E i \in DataIds : i <= readPos /\ Unreadable(file[i])

\* C15: once reading a data record has failed, the producer has returned the
\* read error and closed rowChan, and ParseFile returns a nil tree and a
\* non-nil error whatever the workers returned.
C15_ReadErrorFails ==
    ReadFailed =>
        /\ tRes[Producer].kind \in StreamErrors
        /\ chanClosed
        /\ Returned => (ret.tree.nil /\ ret.err # NoErr)

\* ParseFile returned the read error although a worker saw the closed,
\* empty rowChan and returned nil.
C15_Witness ==
    /\ Returned
    /\ ReadFailed
    /\ ret.err.kind \in StreamErrors
    /\ \E w \in Workers : tRes[w] = NoErr

\* ---- C16
\* C16: when reading or resolving the header fails, ParseFile has returned a
\* nil tree and that error, and nothing else has happened: the producer and
\* the workers were not started, no data record was read or sent, and the
\* tree was never touched.
C16_HeaderFailureStopsEarly ==
    (pfPc # "start" /\ ~HeaderOK) =>
        /\ Returned
        /\ ret.tree.nil
        /\ ret.err # NoErr
        /\ ret.err = parseHeader(file).err
        /\ prodPc = "idle"
        /\ \A w \in Workers : wPc[w] = "idle"
        /\ \A t \in Tasks : tRes[t] = Pending
        /\ readPos = 0
        /\ rowChan = <<>> /\ ~chanClosed
        /\ \A i \in RowIds : pubCount[i] = 0 /\ deqCount[i] = 0 /\ addCount[i] = 0
        /\ nodes = NewNode /\ mu = 0

\* A header with a level gap was rejected although data records follow it.
C16_Witness ==
    /\ Returned
    /\ ~HeaderOK
    /\ NumRows > 0
    /\ ret.err.kind = ErrMissingParentElement
    /\ readPos = 0

\* ---- C17
\* The header record, and whether ParseFile is past parseHeader.
Header == file[1].fields
Resolved == file # <<>> /\ pfPc # "start"
ColumnSet(h) == {h[i] : i \in DOMAIN h}
\* item_id and level_1..level_k, each once, in any order.
Canonical(h) ==
    /\ Len(h) >= 2
    /\ ColumnSet(h) = {ITEM_ID} \cup {LevelName(j) : j \in 1..(Len(h) - 1)}

\* C17: a header made of item_id and level_1..level_k in any order is
\* resolved without error (the producer is started) into k+1 mappings, each
\* column name mapped to its zero-based position, no two names to the same
\* position.
C17_CanonicalHeaderResolves ==
    (Resolved /\ Canonical(Header)) =>
        /\ prodPc # "idle"
        /\ DOMAIN colIndexes = ColumnSet(Header)
        /\ Cardinality(DOMAIN colIndexes) = Len(Header)
        /\ \A i \in DOMAIN Header : colIndexes[Header[i]] = i - 1
        /\ \A a, b \in DOMAIN colIndexes : a # b => colIndexes[a] # colIndexes[b]

\* level_2,level_3,item_id,level_1 was resolved: level_1 is column 3.
C17_Witness ==
    /\ Resolved
    /\ Header = <<LevelName(2), LevelName(3), ITEM_ID, LevelName(1)>>
    /\ pfPc = "wait"
    /\ colIndexes[LevelName(1)] = 3
    /\ colIndexes[ITEM_ID] = 2

\* ---- C18
\* How a column name reads: a level column has the level prefix and an
\* integer suffix, its depth.
IsLevelColumn(col) == HasPrefix(col, LV_PREFIX) /\ Atoi(TrimPrefix(col, LV_PREFIX)).ok
Depth(col) == Atoi(TrimPrefix(col, LV_PREFIX)).val
Lacks(h, role) == role \notin ColumnSet(h)
LacksRequired(h) == Lacks(h, ITEM_ID) \/ Lacks(h, LevelName(1))
\* item_id twice, or two level columns of one depth.
Repeats(h) ==
    \E i, j \in DOMAIN h :
        /\ i < j
        /\ \/ h[i] = ITEM_ID /\ h[j] = ITEM_ID
           \/ IsLevelColumn(h[i]) /\ IsLevelColumn(h[j]) /\ Depth(h[i]) = Depth(h[j])
AllRecognized(h) == \A i \in DOMAIN h : h[i] = ITEM_ID \/ IsLevelColumn(h[i])
\* ParseFile returned the header error err and no schema.
HeaderRejected == Returned /\ ret.tree.nil /\ prodPc = "idle" /\ colIndexes = EmptyMap

\* C18 as the specification words it: every header without level_1 or
\* without item_id is rejected with the missing-required-column error
\* naming a missing role, and no mapping is returned.
C18_MissingRoleNamed ==
    (Resolved /\ LacksRequired(Header)) =>
        /\ HeaderRejected
        /\ ret.err.kind = ErrMissingRequiredColumn
        /\ ret.err.what \in {ITEM_ID, LevelName(1)}
        /\ Lacks(Header, ret.err.what)

\* C18, amended: every header whose columns are all recognized and none
\* repeated, and that lacks level_1 or item_id, is rejected with the
\* missing-required-column error naming a missing role (item_id when both
\* are missing), and no mapping is returned.
C18_MissingRoleNamedWhenColumnsValid ==
    (Resolved /\ AllRecognized(Header) /\ ~Repeats(Header) /\ LacksRequired(Header)) =>
        /\ HeaderRejected
        /\ ret.err.kind = ErrMissingRequiredColumn
        /\ ret.err.what = IF Lacks(Header, ITEM_ID) THEN ITEM_ID ELSE LevelName(1)

\* level_2,item_id was rejected for its missing level_1.
C18_Witness ==
    /\ Resolved
    /\ Header = <<LevelName(2), ITEM_ID>>
    /\ HeaderRejected
    /\ ret.err = Err(ErrMissingRequiredColumn, LevelName(1))

\* ---- C19
DepthsSeen(h) == {Depth(h[i]) : i \in {j \in DOMAIN h : IsLevelColumn(h[j])}}
\* Some depth k > 1 is present and depth k - 1 is not.
HasGap(h) == \E k \in DepthsSeen(h) : k > 1 /\ (k - 1) \notin DepthsSeen(h)
SchemaErrors ==
    {ErrUnknownColumn, ErrMissingRequiredColumn, ErrMissingParentElement,
     ErrReoccurringColumn}

\* C19: a header with a depth gap is rejected with a schema error, in any
\* column order; when nothing else is wrong with the header the error is
\* the missing-parent one.
C19_LevelGapRejected ==
    (Resolved /\ HasGap(Header)) =>
        /\ HeaderRejected
        /\ ret.err.kind \in SchemaErrors
        /\ (AllRecognized(Header) /\ ~Repeats(Header) /\ ~LacksRequired(Header))
               => ret.err.kind = ErrMissingParentElement

\* item_id,level_3,level_1 was rejected for the missing level_2.
C19_Witness ==
    /\ Resolved
    /\ Header = <<ITEM_ID, LevelName(3), LevelName(1)>>
    /\ HeaderRejected
    /\ ret.err.kind = ErrMissingParentElement

\* ---- C20
\* C20: a header with a column that is neither item_id nor a level column
\* (no level prefix, or a suffix that is no integer), with item_id twice, or
\* with two level columns of one depth is rejected and no mapping is
\* returned; the error is the unknown-column or the reoccurring-column one.
C20_BadColumnRejected ==
    (Resolved /\ (~AllRecognized(Header) \/ Repeats(Header))) =>
        /\ HeaderRejected
        /\ ret.err.kind \in {ErrUnknownColumn, ErrReoccurringColumn}
        /\ AllRecognized(Header) => ret.err.kind = ErrReoccurringColumn
        /\ ~Repeats(Header) => ret.err.kind = ErrUnknownColumn

\* level_1,level_2,level_1 was rejected for the second level_1.
C20_Witness ==
    /\ Resolved
    /\ Header = <<LevelName(1), LevelName(2), LevelName(1)>>
    /\ HeaderRejected
    /\ ret.err = Err(ErrReoccurringColumn, LevelName(1))

\* ---- C21
\* A level column whose depth is 0 or negative.
NonPositiveDepth(col) == IsLevelColumn(col) /\ Depth(col) < 1

\* C21: a header holding a level column of depth 0 or of negative depth is
\* rejected by schema resolution with a schema error.
C21_NonPositiveDepthRejected ==
    (Resolved /\ \E i \in DOMAIN Header : NonPositiveDepth(Header[i])) =>
        /\ HeaderRejected
        /\ ret.err.kind \in SchemaErrors

\* ---- C22
\* The fields of data record i, and what they hold for the schema's columns.
Fields(i) == file[i + 1].fields
HasColumn(r, col) == col \in DOMAIN Schema /\ Schema[col] < Len(r)
ValueOf(r, col) == r[Schema[col] + 1]
LevelIds == 1..NumLevels
EmptyLevel(r, k) == HasColumn(r, LevelName(k)) /\ ValueOf(r, LevelName(k)) = ""
FilledLevel(r, k) == HasColumn(r, LevelName(k)) /\ ValueOf(r, LevelName(k)) # ""
\* Some level is empty and a deeper one is not.
Orphaned(r) == \E k, k2 \in LevelIds : k < k2 /\ EmptyLevel(r, k) /\ FilledLevel(r, k2)
HasAllLevels(r) == \A k \in LevelIds : HasColumn(r, LevelName(k))
\* Record i was received by a worker.
Received(i) == deqCount[i] = 1
\* A worker received record i and returned an error for it; AddNode was not
\* called for it.
FailedOn(i) ==
    /\ addCount[i] = 0
    /\ \E w \in Workers :
           /\ wRow[w].idx = i
           /\ wPc[w] \in {"exit", "done"}
           /\ tRes[w] \notin {NoErr, Pending}
RowError(i) == tRes[CHOOSE w \in Workers : wRow[w].idx = i]

\* C22 as the specification words it: every received record with an empty
\* level and a non-empty deeper level fails with the missing-parent error
\* and is not inserted.
C22_OrphanLevelFails ==
    \A i \in RowIds :
        (Received(i) /\ Orphaned(Fields(i))) =>
            (FailedOn(i) /\ RowError(i).kind = ErrMissingParentElement)

\* C22, amended: every received record that holds a field for every level
\* column, with an empty level and a non-empty deeper level, fails with
\* the missing-parent error and is not inserted.
C22_OrphanLevelFailsWhenLevelsPresent ==
    \A i \in RowIds :
        (Received(i) /\ HasAllLevels(Fields(i)) /\ Orphaned(Fields(i))) =>
            (FailedOn(i) /\ RowError(i).kind = ErrMissingParentElement)

\* Header level_3,level_1,level_2,item_id: level_1 and level_2 are empty,
\* level_3 is not, and the record failed for its missing parent.
C22_Witness ==
    /\ NumRows >= 1
    /\ Fields(1) = <<"a", "", "", "d">>
    /\ FailedOn(1)
    /\ RowError(1).kind = ErrMissingParentElement

\* ---- C23
\* The number of leading non-empty levels of a record.
LeadingFilled(r) ==
    CHOOSE n \in 0..NumLevels :
        /\ \A k \in 1..n : FilledLevel(r, k)
        /\ n = NumLevels \/ ~FilledLevel(r, n + 1)
\* Worker w holds a record that passed validation: it is about to call
\* AddNode or is inside it.
Validated(w) == wPc[w] \in {"lock"} \cup CriticalPcs

\* C23: the path handed to AddNode for a validated record is the record's
\* level values in increasing logical depth, whatever the columns' positions,
\* cut at the first empty level: as long as the number of leading non-empty
\* levels and without an empty segment.
C23_PathIsLeadingLevels ==
    \A w \in Workers :
        Validated(w) =>
            LET r == wRow[w].row
                n == LeadingFilled(r)
            IN  /\ HasAllLevels(r)
                /\ Len(wLevels[w]) = n
                /\ \A k \in 1..n : wLevels[w][k] = ValueOf(r, LevelName(k))
                /\ \A k \in 1..Len(wLevels[w]) : wLevels[w][k] # ""

\* Header level_3,level_1,level_2,item_id, record a,b,c,d: the path is b,c,a.
C23_Witness ==
    \E w \in Workers :
        /\ Validated(w)
        /\ Header = <<LevelName(3), LevelName(1), LevelName(2), ITEM_ID>>
        /\ wRow[w].row = <<"a", "b", "c", "d">>
        /\ wLevels[w] = <<"b", "c", "a">>

\* ---- C24
\* C24: every received record of the header's length whose level_1 value is
\* empty fails with a record error that names level_1 and is never inserted,
\* whether its deeper levels are empty or not.
C24_EmptyLevel1Fails ==
    \A i \in RowIds :
        (Received(i) /\ Len(Fields(i)) = Len(Header) /\ EmptyLevel(Fields(i), 1)) =>
            /\ FailedOn(i)
            /\ RowError(i).kind \in RecordErrors
            /\ RowError(i).what = LevelName(1)

\* ---- C25
\* C25: every received record whose item_id field is present and empty fails
\* with the missing-required-value error for item_id; no leaf with the empty
\* string as key is in the tree.
C25_EmptyItemFails ==
    /\ \A i \in RowIds :
           (Received(i) /\ HasColumn(Fields(i), ITEM_ID)
                /\ ValueOf(Fields(i), ITEM_ID) = "") =>
               /\ FailedOn(i)
               /\ RowError(i) = Err(ErrMissingRequiredValue, ITEM_ID)
    /\ \A p \in DOMAIN nodes : p # <<>> => p[Len(p)] # ""

\* ---- C26
\* The record has no field for some column of the schema.
MissingColumns(r) == {col \in DOMAIN Schema : ~HasColumn(r, col)}
\* The shallowest level without a field, else item_id.
FirstMissing(r) ==
    IF \E k \in LevelIds : LevelName(k) \in MissingColumns(r)
    THEN LevelName(CHOOSE k \in LevelIds :
                       /\ LevelName(k) \in MissingColumns(r)
                       /\ \A j \in 1..(k - 1) : LevelName(j) \notin MissingColumns(r))
    ELSE ITEM_ID
NothingAfter(i) == \A j \in RowIds : j > i => deqCount[j] = 0

\* C26 as the specification words it: every received record without a
\* field for some level or for item_id fails with the missing-required-value
\* error naming such a column, and the worker receives no further record.
C26_ShortRecordFails ==
    \A i \in RowIds :
        (Received(i) /\ MissingColumns(Fields(i)) # {}) =>
            /\ FailedOn(i)
            /\ RowError(i).kind = ErrMissingRequiredValue
            /\ RowError(i).what \in MissingColumns(Fields(i))
            /\ NothingAfter(i)

\* C26, amended: every received record without a field for some level or
\* for item_id, and without a non-empty level after an empty one, fails
\* with the missing-required-value error naming the shallowest missing
\* level, else item_id, and the worker receives no further record.
C26_ShortRecordFailsUnlessOrphaned ==
    \A i \in RowIds :
        (Received(i) /\ MissingColumns(Fields(i)) # {} /\ ~Orphaned(Fields(i))) =>
            /\ FailedOn(i)
            /\ RowError(i) = Err(ErrMissingRequiredValue, FirstMissing(Fields(i)))
            /\ NothingAfter(i)

\* Header level_3,level_1,level_2,item_id: the one-field record a failed for
\* its missing level_1, the record after it was left on rowChan, and
\* ParseFile returned the error.
C26_Witness ==
    /\ NumRows = 2
    /\ Fields(1) = <<"a">>
    /\ FailedOn(1)
    /\ RowError(1) = Err(ErrMissingRequiredValue, LevelName(1))
    /\ deqCount[2] = 0
    /\ Failure

\* ---- C27
\* Paths and identifiers AddNode is probed with; they meet the keys of the
\* trees built from the rows, as levels and as items.
ProbePaths == SeqsUpTo({"a", "b"}, 2)
ProbeIds == {"a", "b", "c"}
\* AddNode for each record of recs in turn.
RECURSIVE InsertAll(_, _)
InsertAll(t, recs) ==
    IF recs = <<>> THEN t
    ELSE LET r == rowToInsert(Head(recs).fields, Schema) IN
         InsertAll(AddNode(t, r.levels, r.itemID), Tail(recs))
DataRecs == SubSeq(file, 2, Len(file))
Without(q, i) == SubSeq(q, 1, i - 1) \o SubSeq(q, i + 1, Len(q))

\* C27: on every tree a run ends with (a tree built on the way is the end
\* tree of a shorter input), AddNode called twice with the same path and
\* identifier gives the tree one call gives; and when an input repeats a
\* record right after itself, the tree returned is the tree of the input
\* without the repetition.
C27_AddNodeIdempotent ==
    /\ ret # NotReturned =>
           \A l \in ProbePaths, id \in ProbeIds :
               AddNode(AddNode(nodes, l, id), l, id) = AddNode(nodes, l, id)
    /\ Success =>
           \A i \in RowIds :
               (i < NumRows /\ Fields(i) = Fields(i + 1)) =>
                   ret.tree.tree = InsertAll(NewNode, Without(DataRecs, i + 1))

\* The record a,b,c twice: the tree returned is the tree of one insert.
C27_Witness ==
    /\ Success
    /\ NumRows = 2
    /\ Fields(1) = <<"a", "b", "c">>
    /\ Fields(2) = <<"a", "b", "c">>
    /\ addCount[1] = 1 /\ addCount[2] = 1
    /\ ret.tree.tree = AddNode(NewNode, <<"a", "b">>, "c")

\* ---- C28
\* The key sequence of data record i: its path, then its item identifier.
RecordKeys(i) ==
    LET r == rowToInsert(Fields(i), Schema) IN Append(r.levels, r.itemID)
Prefixes(q) == {SubSeq(q, 1, n) : n \in 0..Len(q)}
\* The node set of the trie of the records' key sequences.
TrieNodes == {<<>>} \cup UNION {Prefixes(RecordKeys(i)) : i \in RowIds}

\* C28: the tree ParseFile returns holds a node for every prefix of every
\* record's key sequence and no other node.
C28_TreeIsTrie ==
    Success => DOMAIN ret.tree.tree = TrieNodes

\* ---- C29
HasChildren(t, p) == \E q \in DOMAIN t : q # p /\ IsPrefix(p, q)
\* Records whose insert has begun or is done.
Inserting(i) ==
    addCount[i] = 1 \/ \E w \in Workers : InCritical(w) /\ wRow[w].idx = i

\* C29: a node with the leaf flag has no children and was inserted as the
\* item identifier of a record; and in the tree ParseFile returns, the node
\* of every record's key sequence has the flag and no node of its path has.
C29_LeafFlagIffItem ==
    /\ \A p \in DOMAIN nodes :
           nodes[p].Item =>
               /\ ~HasChildren(nodes, p)
               /\ \E i \in RowIds : Inserting(i) /\ RecordKeys(i) = p
    /\ Success =>
           \A i \in RowIds :
               LET t == ret.tree.tree
                   k == RecordKeys(i)
               IN  /\ k \in DOMAIN t /\ t[k].Item
                   /\ \A p \in Prefixes(k) \ {k} : p \in DOMAIN t /\ ~t[p].Item

\* ---- C30
\* The input's framing is readable: there is a header, and no record is
\* malformed CSV.
Framed == file # <<>> /\ \A i \in DOMAIN file : ~file[i].bad

\* C30: an error ParseFile returns for a schema or record violation is a
\* known user error; a stream read error or a cancellation is not; and
\* unless the caller cancelled, no input with readable framing makes
\* ParseFile return an error that is not a known user error.
C30_UserErrorsClassified ==
    Failure =>
        /\ ret.err.kind \in SchemaErrors \cup {ErrMissingRequiredValue} =>
               IsKnownUserError(ret.err)
        /\ ret.err.kind \in StreamErrors \cup {ErrEOF, Canceled} =>
               ~IsKnownUserError(ret.err)
        /\ (~callerCancelled /\ Framed) => IsKnownUserError(ret.err)

\* ---- C31
\* The tasks ParseFile has started: the producer and the workers.
Started == {t \in Tasks : IF t = Producer THEN prodPc # "idle" ELSE wPc[t] # "idle"}

C32_Terminates ==
    /\ <>(pfPc = "returned")
    /\ [](\A w \in Workers : wPc[w] = "done" => mu # w)

\* The caller cancelled while the producer held the second record at a full
\* queue and the worker had left: ParseFile has returned, every task is
\* done, the lock is free and the first record is still in the queue.
C32_Witness ==
    /\ pfPc = "returned"
    /\ ret.err.kind = Canceled
    /\ NumRows = 2
    /\ Len(rowChan) = QueueCap
    /\ pubCount[2] = 0
    /\ deqCount[1] = 0
    /\ prodPc = "done"
    /\ \A w \in Workers : wPc[w] = "done"
    /\ mu = 0

\* ---- C33
\* Column i of header h is offending: it is no item_id and no level column,
\* or it repeats a column before it.
Unrecognized(col) == col # ITEM_ID /\ ~IsLevelColumn(col)
RepeatsEarlier(h, i) ==
    \E j \in 1..(i - 1) :
        \/ h[i] = ITEM_ID /\ h[j] = ITEM_ID
        \/ IsLevelColumn(h[i]) /\ IsLevelColumn(h[j]) /\ Depth(h[i]) = Depth(h[j])
Offending(h, i) == Unrecognized(h[i]) \/ RepeatsEarlier(h, i)
FirstOffending(h) ==
    CHOOSE i \in DOMAIN h : Offending(h, i) /\ \A j \in 1..(i - 1) : ~Offending(h, j)

\* C33: a header that has an offending column and also lacks item_id or
\* level_1 is rejected with the error of its first offending column, which
\* the error names: unknown column, or reoccurring column; never with the
\* missing-required-column error.
C33_ColumnErrorsFirst ==
    (Resolved /\ LacksRequired(Header) /\ \E i \in DOMAIN Header : Offending(Header, i)) =>
        LET col == Header[FirstOffending(Header)] IN
        /\ HeaderRejected
        /\ ret.err.kind # ErrMissingRequiredColumn
        /\ ret.err.what = col
        /\ ret.err.kind = IF Unrecognized(col) THEN ErrUnknownColumn ELSE ErrReoccurringColumn

\* level_1,level_2,level_1 lacks item_id and was rejected for its second level_1.
C33_Witness ==
    /\ Resolved
    /\ Header = <<LevelName(1), LevelName(2), LevelName(1)>>
    /\ HeaderRejected
    /\ ret.err = Err(ErrReoccurringColumn, LevelName(1))

\* ---- C34
\* A record with a value in every column of the header.
FullRecord == [i \in DOMAIN Header |-> "a"]

\* C34: a schema that was resolved without error has as keys item_id and
\* level_1..level_k, k being the number of its mappings less one, and the
\* level loop run with it on a record of the header's length does not fail
\* for a missing index.
C34_SchemaKeysCanonical ==
    (Resolved /\ pfPc = "wait") =>
        LET k == Cardinality(DOMAIN colIndexes) - 1 IN
        /\ DOMAIN colIndexes = {ITEM_ID} \cup {LevelName(j) : j \in 1..k}
        /\ extractHierarchyLevels(FullRecord, colIndexes).err.kind # ErrMissingIndex

\* ---- C35
\* A step that closes rowChan: the channel was open, and the step is the
\* producer's function returning (nil at the end of the input, the read
\* error, or the cancellation); no worker moves in it.
ClosingStep ==
    /\ ~chanClosed
    /\ prodPc \in {"read", "select"}
    /\ prodPc' = "exit"
    /\ tRes[Producer] = Pending
    /\ tRes'[Producer].kind \in {NoErr.kind, Canceled} \cup StreamErrors
    /\ UNCHANGED <<wPc, rowChan, pubCount>>

\* C35: rowChan is closed exactly when the producer's function has
\* returned; the only step that changes chanClosed is that return, taken
\* with the channel open, and the channel is never reopened; and once it is
\* closed no record is sent on it.
C35_ClosedOnceByProducer ==
    /\ [](chanClosed <=> prodPc \in {"exit", "done"})
    /\ [][/\ chanClosed' # chanClosed => ClosingStep
          /\ chanClosed =>
                 /\ chanClosed'
                 /\ pubCount' = pubCount
                 /\ Len(rowChan') <= Len(rowChan)]_vars

\* The producer left on cancellation with the second record unsent: rowChan
\* is closed while a worker is still inserting the first record.
C35_Witness ==
    /\ chanClosed
    /\ tRes[Producer].kind = Canceled
    /\ NumRows = 2
    /\ pubCount[1] = 1 /\ pubCount[2] = 0
    /\ \E w \in Workers : wPc[w] = "lock"

\* ---- C36
\* A record the worker rejects: a level column or the item_id column lies
\* beyond its fields, or a level is empty and a deeper one is not.
Rejected(r) == ~HasAllLevels(r) \/ Orphaned(r) \/ ~HasColumn(r, ITEM_ID)
\* The keys an accepted record is inserted under: its leading non-empty
\* levels, then its item identifier.
KeysOf(r) ==
    [k \in 1..LeadingFilled(r) |-> ValueOf(r, LevelName(k))] \o <<ValueOf(r, ITEM_ID)>>

\* C36: AddNode is never called for a rejected record, and every node of
\* the tree lies on the key path of a received record that was accepted:
\* a rejected record adds no node, not for its valid leading levels either.
C36_RejectedLeavesNoNode ==
    /\ \A i \in RowIds :
           Rejected(Fields(i)) =>
               /\ addCount[i] = 0
               /\ \A w \in Workers : wRow[w].idx = i => ~Validated(w)
    /\ \A p \in DOMAIN nodes \ {<<>>} :
           \E i \in RowIds :
               /\ Received(i)
               /\ ~Rejected(Fields(i))
               /\ IsPrefix(p, KeysOf(Fields(i)))

\* The record a,b under level_1,level_2,item_id has both levels and no item
\* identifier: the worker failed on it and the tree is still the empty root.
C36_Witness ==
    /\ Failure
    /\ Header = ShortHeader
    /\ Fields(1) = <<"a", "b">>
    /\ FailedOn(1)
    /\ ret.err = Err(ErrMissingRequiredValue, ITEM_ID)
    /\ nodes = NewNode
====
